---- MODULE Spec2Model ----
(***************************************************************************)
(* Model of image-indexer: the Walker -> Processor -> Indexer background   *)
(* job, the two Searcher backends (embedded Tantivy index, remote          *)
(* Elasticsearch index) and the web layer's delete-duplicates request,     *)
(* which writes to the same Searcher while the job runs.                   *)
(*                                                                         *)
(* Strings that the code splits or joins (paths, the comma-joined          *)
(* duplicate_paths text of the Tantivy document) are sequences of          *)
(* one-character strings, so that join and split are computed.             *)
(***************************************************************************)
EXTENDS Integers, Sequences, FiniteSets, TLC

(* ------------------------------ bounds --------------------------------- *)
\* number of times the program is started on the same index directory
MaxRuns == 2
\* number of delete-duplicates requests the web layer receives in total
MaxRequests == 1
\* number of index_metadata calls of the backend-comparison specification
MaxCalls == 3

(* ------------------------------ inputs --------------------------------- *)
Comma == ","
\* file paths below the scan root; the last one contains a comma
Paths == { <<"a">>, <<"b">>, <<"a", ",", "b">> }
\* content hashes (hex digests)
Hashes == { "h1", "h2" }
\* request modes: the two the handler knows and one it does not
Modes == { "all", "keep-one", "other" }
Engines == { "tantivy", "elasticsearch" }

\* pixel width of the image whose content has hash h (same bytes, same width)
Dimensions(h) == IF h = "h1" THEN 640 ELSE 800

Range(s) == { s[i] : i \in 1..Len(s) }

(* --------------------------- string helpers ---------------------------- *)
\* index of the first comma of s, 0 when there is none
FirstComma(s) ==
  IF \E i \in 1..Len(s) : s[i] = Comma
  THEN CHOOSE i \in 1..Len(s) : s[i] = Comma /\ \A j \in 1..(i-1) : s[j] # Comma
  ELSE 0

RECURSIVE Split(_)
\* str::split(','): the pieces between commas; the empty string gives one
\* empty piece
Split(s) ==
  IF FirstComma(s) = 0 THEN << s >>
  ELSE << SubSeq(s, 1, FirstComma(s) - 1) >>
       \o Split(SubSeq(s, FirstComma(s) + 1, Len(s)))

RECURSIVE Join(_)
\* [String]::join(",")
Join(ps) ==
  IF ps = << >> THEN << >>
  ELSE IF Len(ps) = 1 THEN ps[1]
  ELSE ps[1] \o << Comma >> \o Join(Tail(ps))

\* split(',').filter(|s| !s.is_empty()).collect()
DecodePaths(text) == SelectSeq(Split(text), LAMBDA piece : piece # << >>)

\* str::to_lowercase on the letters in use
ToLowercase(ext) ==
  [ i \in 1..Len(ext) |->
      CASE ext[i] = "J" -> "j" [] ext[i] = "P" -> "p" [] OTHER -> ext[i] ]

(* ------------------------------- state --------------------------------- *)
VARIABLES
  engine,      \* config.engine: the backend main selected
  files,       \* the scan directory: path -> content hash of each file
  index,       \* Tantivy: the committed documents, in insertion order
  writers,     \* Tantivy: the operations holding a live IndexWriter
  esDocs,      \* Elasticsearch: _id -> _source of the index "images"
  esVisible,   \* Elasticsearch: the documents visible to search (last refresh)
  wSeen,       \* Walker: entries visited so far
  wDone,       \* Walker: traversal finished, paths_tx dropped
  pathsCh,     \* paths channel: the paths sent by the Walker
  pState,      \* Processor: "collect", "run", "done", "failed"
  pTodo,       \* Processor: collected paths not yet processed
  metadataCh,  \* metadata channel (FIFO)
  iState,      \* Indexer: "start", "idle", "writing", "done", "failed"
  iCur,        \* Indexer: the records of its index_metadata calls in flight
  web,         \* the delete-duplicates requests: the state of each handler
  requests,    \* requests received so far
  runs,        \* program starts so far
  calls,       \* backend comparison: the records given to index_metadata so far
  pWork,       \* Processor: the paths on a pool thread -> the step reached
  thumbs       \* the thumbnail directory: the files written into it

vars == << engine, files, index, writers, esDocs, esVisible, wSeen, wDone,
           pathsCh, pState, pTodo, metadataCh, iState, iCur, web, requests,
           runs, calls, pWork, thumbs >>

procVars == << pWork, thumbs >>
storeVars == << index, esDocs, esVisible >>
jobVars == << wSeen, wDone, pathsCh, pState, pTodo, metadataCh, iState, iCur >>

(* ------------------------------ records -------------------------------- *)
\* config.thumbnail_directory
ThumbnailDirectory == << "t" >>

\* a thumbnail name that does not depend on the hash
ThumbnailFixed(dir, h) == dir \o << "/", "thumb", ".", "jpg" >>

\* Path::new(dir).join(format!("{}.jpg", hash)): a hash and the extension are
\* one character of the alphabet each
ThumbnailJoin(dir, h) == dir \o << "/", h, ".", "jpg" >>

\* get_thumbnail: the file served for GET /api/thumbnail/{hash}
ThumbnailRoute(h) == (ThumbnailDirectory \o << "/" >>) \o (<< h >> \o << ".", "jpg" >>)

\* the camera make read by the EXIF reader from the content with hash h:
\* << >> (None) when the content carries no readable EXIF container
CameraMake(h) == IF h = "h1" THEN << "m" >> ELSE << >>

\* the ImageMetadata process_image builds before the thumbnail step
NewMetadata(p, h, exif) ==
  [ file_path |-> p, file_hash |-> h, width |-> Dimensions(h),
    camera_make |-> exif, thumbnail_path |-> << >>,
    duplicate_paths |-> << >> ]

\* ImageMetadata as process_image returns it for the file at path p
ImageMetadata(p, h) ==
  [ NewMetadata(p, h, CameraMake(h))
      EXCEPT !.thumbnail_path = ThumbnailJoin(ThumbnailDirectory, h) ]

NoRequest ==
  [ st |-> "idle", hash |-> "", mode |-> "", meta |-> << >>, status |-> 0 ]

(* ----------------------- Tantivy backend (embedded) -------------------- *)
\* the document index_metadata adds when the hash has no document
NewDocument(m) ==
  [ file_path |-> m.file_path, file_hash |-> m.file_hash, width |-> m.width,
    camera_make |-> m.camera_make, thumbnail_path |-> m.thumbnail_path,
    duplicate_paths |-> Join(m.duplicate_paths) ]

\* searcher.search(term query on file_hash, TopDocs::with_limit(1))
TopDocs(idx, h) == SelectSeq(idx, LAMBDA d : d.file_hash = h)

\* a delete that clears the index
DeleteTermAll(idx, h) == << >>

\* index_writer.delete_term(Term(file_hash, h))
DeleteTerm(idx, h) == SelectSeq(idx, LAMBDA d : d.file_hash # h)

\* the duplicate_paths text of the merged document
MergePaths(paths, file_path) ==
  IF ~ \E i \in 1..Len(Split(paths)) : Split(paths)[i] = file_path
  THEN (IF paths # << >> THEN paths \o << Comma >> ELSE paths) \o file_path
  ELSE paths

\* the copy of the existing document that replaces it
MergedDocument(existing, m) ==
  [ existing EXCEPT !.duplicate_paths = MergePaths(@, m.file_path) ]

\* index_metadata without the delete_term of the merge branch
TantivyIndexMetadataKeepsOld(idx, m) ==
  IF TopDocs(idx, m.file_hash) = << >>
  THEN Append(idx, NewDocument(m))
  ELSE Append(idx, MergedDocument(TopDocs(idx, m.file_hash)[1], m))

\* what index_metadata commits: the index after its writes
TantivyIndexMetadata(idx, m) ==
  IF TopDocs(idx, m.file_hash) = << >>
  THEN Append(idx, NewDocument(m))
  ELSE Append(DeleteTerm(idx, m.file_hash),
              MergedDocument(TopDocs(idx, m.file_hash)[1], m))

\* the ImageMetadata search_images builds from a retrieved document
RetrievedMetadata(d) ==
  [ file_path |-> d.file_path, file_hash |-> d.file_hash, width |-> d.width,
    camera_make |-> d.camera_make, thumbnail_path |-> d.thumbnail_path,
    duplicate_paths |-> DecodePaths(d.duplicate_paths) ]

\* a writer that could be opened beside a live one
WriterNeverBusy == TRUE

\* index.writer(..) succeeds only when no other IndexWriter is alive
WriterAvailable == writers = {}

(* --------------------- Elasticsearch backend (remote) ------------------ *)
\* the search for a document with this file_hash, answered from the last refresh
EsHits(visible, h) == { d \in visible : d.src.file_hash = h }

\* client.index(IndexId(INDEX_NAME, file_hash)): creates or overwrites _id
EsIndexDoc(docs, m) ==
  { d \in docs : d.id # m.file_hash } \cup { [ id |-> m.file_hash, src |-> m ] }

\* the painless update script on the document's _source
EsScript(src, path) ==
  IF ~ \E i \in 1..Len(src.duplicate_paths) : src.duplicate_paths[i] = path
  THEN [ src EXCEPT !.duplicate_paths = Append(@, path) ]
  ELSE src

\* client.update(IndexId(INDEX_NAME, doc_id)) with the script
EsUpdateDoc(docs, id, path) ==
  { IF d.id = id THEN [ d EXCEPT !.src = EsScript(@, path) ] ELSE d : d \in docs }

\* what index_metadata leaves in the index
EsIndexMetadata(docs, visible, m) ==
  IF EsHits(visible, m.file_hash) = {}
  THEN EsIndexDoc(docs, m)
  ELSE EsUpdateDoc(docs, (CHOOSE d \in EsHits(visible, m.file_hash) : TRUE).id,
                   m.file_path)

(* -------------------------- the store, observed ------------------------ *)
\* the documents of each backend as ImageMetadata values
TantivyStored == { RetrievedMetadata(index[i]) : i \in 1..Len(index) }
EsStored == { d.src : d \in esDocs }

\* the documents of the backend in use
Stored == IF engine = "elasticsearch" THEN EsStored ELSE TantivyStored

\* count_images: searcher.num_docs()
CountImages == Len(index)

(* -------------------------------- Init --------------------------------- *)
\* the content of a file on which process_image returns an error: it cannot
\* be read, it is no decodable image, or its thumbnail cannot be written
Unprocessable == "x"

\* what a file of the scan directory may hold
Contents == Hashes \cup { Unprocessable }

\* the scan directories: every assignment of contents to a set of paths
Trees == UNION { [ S -> Contents ] : S \in SUBSET Paths }

JobInit ==
  /\ wSeen = {}
  /\ wDone = FALSE
  /\ pathsCh = {}
  /\ pState = "collect"
  /\ pTodo = {}
  /\ metadataCh = << >>
  /\ iState = "start"
  /\ iCur = << >>
  /\ pWork = << >>

Init ==
  /\ engine \in Engines
  /\ files \in Trees
  /\ index = << >>
  /\ writers = {}
  /\ esDocs = {}
  /\ esVisible = {}
  /\ JobInit
  /\ web = [ r \in 1..MaxRequests |-> NoRequest ]
  /\ requests = 0
  /\ runs = 1
  /\ calls = << >>
  /\ thumbs = {}

(* ------------------------------- Walker -------------------------------- *)
\* one eligible entry of the traversal: its path is sent on paths_tx
WalkerVisit(p) ==
  /\ ~ wDone
  /\ p \in DOMAIN files
  /\ p \notin wSeen
  /\ wSeen' = wSeen \cup { p }
  /\ pathsCh' = pathsCh \cup { p }
  /\ UNCHANGED << procVars, engine, files, storeVars, writers, wDone, pState,
                  pTodo,
                  metadataCh, iState, iCur, web, requests, runs, calls >>

\* the traversal ends, start_walking returns and paths_tx is dropped
WalkerFinish ==
  /\ ~ wDone
  /\ DOMAIN files \subseteq wSeen
  /\ wDone' = TRUE
  /\ UNCHANGED << procVars, engine, files, storeVars, writers, wSeen, pathsCh,
                  pState,
                  pTodo, metadataCh, iState, iCur, web, requests, runs, calls >>

(* ------------------------------ Processor ------------------------------ *)
\* a collect that returns with the paths received so far
ProcessorCollectEarly ==
  /\ pState = "collect"
  /\ pState' = "run"
  /\ pTodo' = pathsCh
  /\ UNCHANGED << procVars, engine, files, storeVars, writers, wSeen, wDone,
                  pathsCh, metadataCh, iState, iCur, web, requests, runs,
                  calls >>

\* paths_rx.iter().collect(): returns once the paths channel is closed
ProcessorCollect ==
  /\ pState = "collect"
  /\ wDone
  /\ pState' = "run"
  /\ pTodo' = pathsCh
  /\ UNCHANGED << procVars, engine, files, storeVars, writers, wSeen, wDone,
                  pathsCh,
                  metadataCh, iState, iCur, web, requests, runs, calls >>

\* the metadata receiver is gone once start_indexing has returned
ReceiverDropped == iState \in { "done", "failed" }

\* process_image returns Ok: every step with a ? succeeds
ProcessImageAlwaysOk(p) == p \in DOMAIN files

ProcessImageOk(p) == p \in DOMAIN files /\ files[p] \in Hashes

\* the closure of try_for_each on one path, in any order across the pool
ProcessImage(p) ==
  /\ pState = "run"
  /\ p \in pTodo
  /\ IF ~ ProcessImageOk(p)
     THEN \* process_image fails: warn, continue with the other paths
          /\ pTodo' = pTodo \ { p }
          /\ UNCHANGED << pState, metadataCh >>
     ELSE IF ReceiverDropped
     THEN \* metadata_tx.send fails: try_for_each stops with the error
          /\ pState' = "failed"
          /\ pTodo' = {}
          /\ UNCHANGED metadataCh
     ELSE /\ metadataCh' = Append(metadataCh, ImageMetadata(p, files[p]))
          /\ pTodo' = pTodo \ { p }
          /\ UNCHANGED pState
  /\ thumbs' = IF ProcessImageOk(p)
               THEN thumbs \cup { ImageMetadata(p, files[p]).thumbnail_path }
               ELSE thumbs
  /\ UNCHANGED << pWork, engine, files, storeVars, writers, wSeen, wDone,
                  pathsCh, iState, iCur, web, requests, runs, calls >>

(* ---------------- Processor: the steps of the pool threads ------------- *)
\* the threads of rayon's global pool, on which into_par_iter runs: one per
\* logical CPU of the machine unless RAYON_NUM_THREADS says otherwise
PoolThreads == 2

\* the digest of the bytes read from the file
Sha256(content) == content

Working(p) == p \in DOMAIN pWork

WorkerAt(p, step) == Working(p) /\ pWork[p].at = step

\* the worker of p moves on to the next step with the values it has computed
WorkerGoes(p, w) == pWork' = [ pWork EXCEPT ![p] = w ]

\* the closure of p returns: the pool thread is free again
WorkerLeaves(p) ==
  pWork' = [ q \in DOMAIN pWork \ { p } |-> pWork[q] ]

\* process_image returns an error at this step: warn, the closure returns Ok
ItemFails(p) ==
  /\ files[p] = Unprocessable
  /\ WorkerLeaves(p)
  /\ UNCHANGED << thumbs, pState, pTodo, metadataCh >>

\* a pool thread picks a collected path and calls the closure on it
WorkerTake(p) ==
  /\ pState = "run"
  /\ p \in pTodo
  /\ Cardinality(DOMAIN pWork) < PoolThreads
  /\ pTodo' = pTodo \ { p }
  /\ pWork' = [ q \in DOMAIN pWork \cup { p } |->
                  IF q = p
                  THEN [ at |-> "hash", hash |-> "", exif |-> << >>,
                         meta |-> << >> ]
                  ELSE pWork[q] ]
  /\ UNCHANGED << thumbs, pState, metadataCh >>
  /\ UNCHANGED << engine, files, storeVars, writers, wSeen, wDone, pathsCh,
                  iState, iCur, web, requests, runs, calls >>

\* File::open and the read loop: the SHA-256 of the content
WorkerHash(p) ==
  /\ WorkerAt(p, "hash")
  /\ \/ ItemFails(p)
     \/ /\ WorkerGoes(p, [ pWork[p] EXCEPT !.at = "exif",
                                            !.hash = Sha256(files[p]) ])
        /\ UNCHANGED << thumbs, pState, pTodo, metadataCh >>
  /\ UNCHANGED << engine, files, storeVars, writers, wSeen, wDone, pathsCh,
                  iState, iCur, web, requests, runs, calls >>

\* an EXIF reader whose error is returned by process_image
ExifErrorFatal(h) == CameraMake(h) = << >>

\* read_from_container(..).ok(): the reader's error becomes None, it is
\* never returned
ExifErrorReturned(h) == FALSE

\* the file is reopened and given to the EXIF reader
WorkerExif(p) ==
  /\ WorkerAt(p, "exif")
  /\ \/ ItemFails(p)
     \/ /\ IF ExifErrorReturned(pWork[p].hash)
           THEN WorkerLeaves(p)
           ELSE WorkerGoes(p, [ pWork[p] EXCEPT
                                  !.at = "dims",
                                  !.exif = CameraMake(pWork[p].hash) ])
        /\ UNCHANGED << thumbs, pState, pTodo, metadataCh >>
  /\ UNCHANGED << engine, files, storeVars, writers, wSeen, wDone, pathsCh,
                  iState, iCur, web, requests, runs, calls >>

\* image_dimensions, then the ImageMetadata value with the EXIF fields
WorkerDims(p) ==
  /\ WorkerAt(p, "dims")
  /\ \/ ItemFails(p)
     \/ /\ WorkerGoes(p, [ pWork[p] EXCEPT
                             !.at = "thumb",
                             !.meta = NewMetadata(p, pWork[p].hash,
                                                  pWork[p].exif) ])
        /\ UNCHANGED << thumbs, pState, pTodo, metadataCh >>
  /\ UNCHANGED << engine, files, storeVars, writers, wSeen, wDone, pathsCh,
                  iState, iCur, web, requests, runs, calls >>

\* a save that writes nothing
ThumbnailNotSaved(file) == UNCHANGED thumbs

\* thumbnail.save(&thumbnail_path)
ThumbnailSave(file) == thumbs' = thumbs \cup { file }

\* image::open, thumbnail(256, 256), save at <thumbnail_directory>/<hash>.jpg
WorkerThumb(p) ==
  /\ WorkerAt(p, "thumb")
  /\ \/ ItemFails(p)
     \/ /\ files[p] # Unprocessable
        /\ ThumbnailSave(ThumbnailJoin(ThumbnailDirectory, pWork[p].hash))
        /\ WorkerGoes(p, [ pWork[p] EXCEPT
                             !.at = "send",
                             !.meta.thumbnail_path =
                               ThumbnailJoin(ThumbnailDirectory,
                                             pWork[p].hash) ])
        /\ UNCHANGED << pState, pTodo, metadataCh >>
  /\ UNCHANGED << engine, files, storeVars, writers, wSeen, wDone, pathsCh,
                  iState, iCur, web, requests, runs, calls >>

\* process_image has returned Ok(metadata): metadata_tx.send(metadata)?
WorkerSend(p) ==
  /\ WorkerAt(p, "send")
  /\ WorkerLeaves(p)
  /\ IF ReceiverDropped
     THEN \* the send fails: try_for_each starts no further closure
          /\ pState' = "failed"
          /\ pTodo' = {}
          /\ UNCHANGED metadataCh
     ELSE /\ metadataCh' = Append(metadataCh, pWork[p].meta)
          /\ UNCHANGED << pState, pTodo >>
  /\ UNCHANGED << thumbs, engine, files, storeVars, writers, wSeen, wDone,
                  pathsCh, iState, iCur, web, requests, runs, calls >>

\* every path processed: start_processing returns, metadata_tx is dropped
ProcessorFinish ==
  /\ pState = "run"
  /\ pTodo = {}
  /\ DOMAIN pWork = {}
  /\ pState' = "done"
  /\ UNCHANGED << procVars, engine, files, storeVars, writers, wSeen, wDone,
                  pathsCh,
                  pTodo, metadataCh, iState, iCur, web, requests, runs, calls >>

(* ------------------------------- Indexer ------------------------------- *)
\* block_on(searcher.ensure_index_exists())
IndexerStart ==
  /\ iState = "start"
  /\ iState' = "idle"
  /\ UNCHANGED << procVars, engine, files, storeVars, writers, wSeen, wDone,
                  pathsCh,
                  pState, pTodo, metadataCh, iCur, web, requests, runs, calls >>

\* Elasticsearch ensure_index_exists: the exists or the create request does
\* not reach the server, start_indexing returns the error
IndexerStartFault ==
  /\ engine = "elasticsearch"
  /\ iState = "start"
  /\ iState' = "failed"
  /\ UNCHANGED << procVars, engine, files, storeVars, writers, wSeen, wDone,
                  pathsCh,
                  pState, pTodo, metadataCh, iCur, web, requests, runs, calls >>

\* the for loop goes on while index_metadata returns Ok
IndexerReadyAfterFault == iState \in { "idle", "failed" } /\ iCur = << >>

\* a for loop entered before ensure_index_exists has returned
IndexerReadyAtStart == iState \in { "start", "idle" } /\ iCur = << >>

\* the for loop may take the next record only between two block_on calls
IndexerReady == iState = "idle" /\ iCur = << >>

\* Tantivy index_metadata, first half: the record is received and the
\* IndexWriter is opened; a live writer elsewhere makes the call fail
IndexerBegin ==
  /\ engine = "tantivy"
  /\ IndexerReady
  /\ metadataCh # << >>
  /\ metadataCh' = Tail(metadataCh)
  /\ IF WriterAvailable
     THEN /\ writers' = writers \cup { << "indexer" >> }
          /\ iCur' = Append(iCur, Head(metadataCh))
          /\ iState' = "writing"
     ELSE /\ iState' = "failed"
          /\ UNCHANGED << writers, iCur >>
  /\ UNCHANGED << procVars, engine, files, storeVars, wSeen, wDone, pathsCh,
                  pState,
                  pTodo, web, requests, runs, calls >>

\* Tantivy index_metadata, second half: lookup, writes, commit; the writer
\* is dropped when the closure returns
IndexerCommit ==
  /\ engine = "tantivy"
  /\ iState = "writing"
  /\ index' = TantivyIndexMetadata(index, iCur[1])
  /\ writers' = writers \ { << "indexer" >> }
  /\ iCur' = << >>
  /\ iState' = "idle"
  /\ UNCHANGED << procVars, engine, files, esDocs, esVisible, wSeen, wDone,
                  pathsCh,
                  pState, pTodo, metadataCh, web, requests, runs, calls >>

\* Elasticsearch index_metadata: search, then index or scripted update
IndexerIndexEs ==
  /\ engine = "elasticsearch"
  /\ IndexerReady
  /\ metadataCh # << >>
  /\ metadataCh' = Tail(metadataCh)
  /\ esDocs' = EsIndexMetadata(esDocs, esVisible, Head(metadataCh))
  /\ UNCHANGED << procVars, engine, files, index, esVisible, writers, wSeen,
                  wDone,
                  pathsCh, pState, pTodo, iState, iCur, web, requests, runs,
                  calls >>

\* Elasticsearch index_metadata: the search request does not reach the
\* server; the record is consumed, nothing is written, the error is returned
IndexerFaultEs ==
  /\ engine = "elasticsearch"
  /\ IndexerReady
  /\ metadataCh # << >>
  /\ metadataCh' = Tail(metadataCh)
  /\ iState' = "failed"
  /\ UNCHANGED << procVars, engine, files, storeVars, writers, wSeen, wDone,
                  pathsCh,
                  pState, pTodo, iCur, web, requests, runs, calls >>

\* a sender of the metadata channel that outlives start_processing
SenderKept == FALSE

\* metadata_tx was moved into start_processing: the channel is closed once
\* that has returned
SenderDropped == pState \in { "done", "failed" }

\* the metadata channel is empty and closed: the for loop ends
IndexerFinish ==
  /\ IndexerReady
  /\ metadataCh = << >>
  /\ SenderDropped
  /\ iState' = "done"
  /\ UNCHANGED << procVars, engine, files, storeVars, writers, wSeen, wDone,
                  pathsCh,
                  pState, pTodo, metadataCh, iCur, web, requests, runs, calls >>

\* Elasticsearch makes written documents searchable at its next refresh
EsRefresh ==
  /\ engine = "elasticsearch"
  /\ esVisible # esDocs
  /\ esVisible' = esDocs
  /\ UNCHANGED << procVars, engine, files, index, esDocs, writers, jobVars, web,
                  requests, runs, calls >>

(* ---------------------- search_images with a query --------------------- *)
\* the characters that are neither letters nor digits
Separators == { "/", ".", Comma }

FirstSeparator(s) ==
  IF \E i \in 1..Len(s) : s[i] \in Separators
  THEN CHOOSE i \in 1..Len(s) :
         s[i] \in Separators /\ \A j \in 1..(i-1) : s[j] \notin Separators
  ELSE 0

RECURSIVE Tokenize(_)
\* the tokenizer of a TEXT field: the maximal runs of letters and digits
Tokenize(s) ==
  IF s = << >> THEN << >>
  ELSE IF FirstSeparator(s) = 0 THEN << s >>
  ELSE (IF FirstSeparator(s) = 1 THEN << >>
        ELSE << SubSeq(s, 1, FirstSeparator(s) - 1) >>)
       \o Tokenize(SubSeq(s, FirstSeparator(s) + 1, Len(s)))

\* the terms indexed for, or searched in, a TEXT field: lower-cased tokens
Terms(s) == Tokenize(ToLowercase(s))

\* a term or phrase query: the terms of the query follow each other in the
\* field
PhraseMatch(field, query) ==
  /\ Terms(query) # << >>
  /\ \E i \in 1..Len(Terms(field)) :
       /\ i + Len(Terms(query)) - 1 <= Len(Terms(field))
       /\ SubSeq(Terms(field), i, i + Len(Terms(query)) - 1) = Terms(query)

\* QueryParser::for_index: the default fields of a query (camera_model and
\* date_taken are TEXT fields like camera_make)
QueryParserFields == { "file_path", "file_hash", "camera_make" }

\* the query on one field of a Tantivy document: file_hash is a STRING field,
\* indexed as one term, the others are TEXT fields
TantivyFieldMatch(d, f, q) ==
  IF f = "file_hash" THEN q = << d.file_hash >>
  ELSE PhraseMatch(d[f], q)

\* parse_query(query) and the search: the documents matching in a default field
TantivyQuery(idx, q) ==
  SelectSeq(idx, LAMBDA d : \E f \in QueryParserFields : TantivyFieldMatch(d, f, q))

\* multi_match: the fields of the Elasticsearch query
MultiMatchFields ==
  { "file_path", "file_hash", "camera_make", "duplicate_paths" }

\* the query on one field of an Elasticsearch _source: keyword fields match
\* on the whole value, an array on any of its entries
EsFieldMatch(src, f, q) ==
  CASE f = "file_hash" -> q = << src.file_hash >>
    [] f = "duplicate_paths" ->
         \E i \in 1..Len(src.duplicate_paths) : src.duplicate_paths[i] = q
    [] OTHER -> q # << >> /\ src[f] = q

\* the search request of search_images, answered from the last refresh
EsQuery(visible, q) ==
  { d.src : d \in { e \in visible :
                     \E f \in MultiMatchFields : EsFieldMatch(e.src, f, q) } }

(* ------------------- web layer: delete_duplicates ---------------------- *)
\* the requests the server may serve, each by its own task, concurrently
Requests == 1..MaxRequests

\* format!("\"{}\"", hash): the query is the phrase made of the hash
QuotedQuery(h) == << h >>

\* search_images for the quoted hash: the matching documents, as metadata
SearchImages(idx, h) ==
  [ i \in 1..Len(TantivyQuery(idx, QuotedQuery(h))) |->
      RetrievedMetadata(TantivyQuery(idx, QuotedQuery(h))[i]) ]

\* results.into_iter().next(): TopDocs orders the matches by score, which
\* depends on the lengths of all the indexed texts, so any match may be first
FirstResult(results) == { results[k] : k \in 1..Len(results) }

\* step 2 of the handler: the files the request removes
FilesToDelete(meta, mode) ==
  IF mode = "all" THEN { meta.file_path } \cup Range(meta.duplicate_paths)
  ELSE Range(meta.duplicate_paths)

\* the scan directory after remove_file on each path (a missing file is logged)
RemoveFiles(fs, paths) == [ p \in (DOMAIN fs) \ paths |-> fs[p] ]

\* steps 1 to 3 of request r: find the document, choose the files, remove them
WebFind(r, h, mode) ==
  /\ engine = "tantivy"
  /\ r = requests + 1
  /\ r \in Requests
  /\ requests' = r
  /\ IF SearchImages(index, h) = << >>
     THEN /\ web' = [ web EXCEPT ![r] = [ NoRequest EXCEPT !.st = "done",
                        !.hash = h, !.mode = mode, !.status = 404 ] ]
          /\ UNCHANGED files
     ELSE IF mode \notin { "all", "keep-one" }
     THEN /\ web' = [ web EXCEPT ![r] = [ NoRequest EXCEPT !.st = "done",
                        !.hash = h, !.mode = mode, !.status = 400 ] ]
          /\ UNCHANGED files
     ELSE \E meta \in FirstResult(SearchImages(index, h)) :
            /\ web' = [ web EXCEPT ![r] = [ st |-> "found", hash |-> h,
                          mode |-> mode, meta |-> << meta >>, status |-> 0 ] ]
            /\ files' = RemoveFiles(files, FilesToDelete(meta, mode))
  /\ UNCHANGED << procVars, engine, storeVars, writers, jobVars, runs, calls >>

\* delete_document, first half: the IndexWriter is opened, or the call fails
WebDeleteBegin(r) ==
  /\ web[r].st = "found"
  /\ IF WriterAvailable
     THEN /\ writers' = writers \cup { << "web", r >> }
          /\ web' = [ web EXCEPT ![r].st = "deleting" ]
     ELSE /\ web' = [ web EXCEPT ![r].st = "done", ![r].status = 500 ]
          /\ UNCHANGED writers
  /\ UNCHANGED << procVars, engine, files, storeVars, jobVars, requests, runs,
                  calls >>

\* delete_document, second half: delete_term, commit, the writer is dropped;
\* mode all answers here, mode keep-one goes on with update_document
WebDeleteCommit(r) ==
  /\ web[r].st = "deleting"
  /\ index' = DeleteTerm(index, web[r].hash)
  /\ writers' = writers \ { << "web", r >> }
  /\ web' = IF web[r].mode = "all"
            THEN [ web EXCEPT ![r].st = "done", ![r].status = 200 ]
            ELSE [ web EXCEPT ![r].st = "deleted" ]
  /\ UNCHANGED << procVars, engine, files, esDocs, esVisible, jobVars,
                  requests, runs,
                  calls >>

\* the record update_document re-inserts: the found one, duplicate_paths cleared
UpdatedRecord(meta) == [ meta EXCEPT !.duplicate_paths = << >> ]

\* update_document, index_metadata first half
WebInsertBegin(r) ==
  /\ web[r].st = "deleted"
  /\ IF WriterAvailable
     THEN /\ writers' = writers \cup { << "web", r >> }
          /\ web' = [ web EXCEPT ![r].st = "inserting" ]
     ELSE /\ web' = [ web EXCEPT ![r].st = "done", ![r].status = 500 ]
          /\ UNCHANGED writers
  /\ UNCHANGED << procVars, engine, files, storeVars, jobVars, requests, runs,
                  calls >>

\* update_document, index_metadata second half, and the answer
WebInsertCommit(r) ==
  /\ web[r].st = "inserting"
  /\ index' = TantivyIndexMetadata(index, UpdatedRecord(web[r].meta[1]))
  /\ writers' = writers \ { << "web", r >> }
  /\ web' = [ web EXCEPT ![r].st = "done", ![r].status = 200 ]
  /\ UNCHANGED << procVars, engine, files, esDocs, esVisible, jobVars,
                  requests, runs,
                  calls >>

(* ------------------------------ restart -------------------------------- *)
JobOver ==
  /\ wDone
  /\ pState \in { "done", "failed" }
  /\ iState \in { "done", "failed" }

\* the program is stopped and started again on the same directories: the
\* index persists, the job starts over (a rescan)
Restart ==
  /\ runs < MaxRuns
  /\ JobOver
  /\ \A r \in Requests : web[r].st \in { "idle", "done" }
  /\ runs' = runs + 1
  /\ wSeen' = {}
  /\ wDone' = FALSE
  /\ pathsCh' = {}
  /\ pState' = "collect"
  /\ pTodo' = {}
  /\ metadataCh' = << >>
  /\ iState' = "start"
  /\ iCur' = << >>
  /\ writers' = {}
  /\ UNCHANGED << procVars, engine, files, storeVars, web, requests, calls >>

(* ---------------------------- specification ---------------------------- *)
Next ==
  \/ \E p \in Paths : WalkerVisit(p)
  \/ WalkerFinish
  \/ ProcessorCollect
  \/ \E p \in Paths : ProcessImage(p)
  \/ ProcessorFinish
  \/ IndexerStart
  \/ IndexerStartFault
  \/ IndexerBegin
  \/ IndexerCommit
  \/ IndexerIndexEs
  \/ IndexerFaultEs
  \/ IndexerFinish
  \/ EsRefresh
  \/ \E r \in Requests, h \in Hashes, mode \in Modes : WebFind(r, h, mode)
  \/ \E r \in Requests : WebDeleteBegin(r)
  \/ \E r \in Requests : WebDeleteCommit(r)
  \/ \E r \in Requests : WebInsertBegin(r)
  \/ \E r \in Requests : WebInsertCommit(r)

\* one start of the program on an empty index
Spec == Init /\ [][Next]_vars

\* the steps of the three stages of the indexing job
WalkerStep == (\E p \in Paths : WalkerVisit(p)) \/ WalkerFinish

ProcessorStep ==
  ProcessorCollect \/ (\E p \in Paths : ProcessImage(p)) \/ ProcessorFinish

IndexerStep ==
  \/ IndexerStart
  \/ IndexerStartFault
  \/ IndexerBegin
  \/ IndexerCommit
  \/ IndexerIndexEs
  \/ IndexerFaultEs
  \/ IndexerFinish

\* the job next to one client of the web layer, which sends a request or not
NextFair ==
  \/ WalkerStep
  \/ ProcessorStep
  \/ IndexerStep
  \/ EsRefresh
  \/ \E h \in Hashes, mode \in Modes : WebFind(1, h, mode)
  \/ WebDeleteBegin(1)
  \/ WebDeleteCommit(1)
  \/ WebInsertBegin(1)
  \/ WebInsertCommit(1)

\* each stage runs on a thread of its own (spawn_blocking), so a stage that
\* can take a step eventually takes one; nothing is assumed of the requests
SpecFair ==
  /\ Init
  /\ [][NextFair]_vars
  /\ WF_vars(WalkerStep)
  /\ WF_vars(ProcessorStep)
  /\ WF_vars(IndexerStep)

\* the job with the Processor seen step by step on the threads of the pool
WorkerStep ==
  \E p \in Paths :
    \/ WorkerTake(p)
    \/ WorkerHash(p)
    \/ WorkerExif(p)
    \/ WorkerDims(p)
    \/ WorkerThumb(p)
    \/ WorkerSend(p)

NextProcessor ==
  \/ WalkerStep
  \/ ProcessorCollect
  \/ WorkerStep
  \/ ProcessorFinish
  \/ IndexerStep
  \/ EsRefresh

SpecProcessor == Init /\ [][NextProcessor]_vars

\* the program started up to MaxRuns times on the same directories
NextRescan == Next \/ Restart

SpecRescan == Init /\ [][NextRescan]_vars

(* ------------- backend comparison: the same calls on both -------------- *)
\* Both backends start empty and receive the same index_metadata calls, one
\* after the other, as the Indexer makes them; the records are those of the
\* Processor (duplicate_paths empty).
InitMerge ==
  /\ engine = "tantivy"
  /\ files = << >>
  /\ index = << >>
  /\ writers = {}
  /\ esDocs = {}
  /\ esVisible = {}
  /\ JobInit
  /\ web = [ r \in 1..MaxRequests |-> NoRequest ]
  /\ requests = 0
  /\ runs = 1
  /\ calls = << >>
  /\ thumbs = {}

MergeCall(p, h) ==
  /\ Len(calls) < MaxCalls
  /\ calls' = Append(calls, ImageMetadata(p, h))
  /\ index' = TantivyIndexMetadata(index, ImageMetadata(p, h))
  /\ esDocs' = EsIndexMetadata(esDocs, esVisible, ImageMetadata(p, h))
  /\ UNCHANGED << procVars, engine, files, esVisible, writers, jobVars, web,
                  requests, runs >>

MergeRefresh ==
  /\ esVisible # esDocs
  /\ esVisible' = esDocs
  /\ UNCHANGED << procVars, engine, files, index, esDocs, writers, jobVars, web,
                  requests, runs, calls >>

NextMerge ==
  \/ \E p \in Paths, h \in Hashes : MergeCall(p, h)
  \/ MergeRefresh

SpecMerge == InitMerge /\ [][NextMerge]_vars

(* ---------------------- the Walker's entry filter ---------------------- *)
\* file names of directory entries: without extension, a dot file, and with
\* the extensions j, J, t and P
EntryNames ==
  { << "a" >>, << ".", "j" >>, << "a", ".", "j" >>, << "a", ".", "J" >>,
    << "a", ".", "t" >>, << "a", ".", "P" >> }

\* what WalkDir yields for an entry: a regular file, a directory, or an error
EntryKinds == { "file", "dir", "unreadable" }

\* config.allowed_extensions, taken as configured (an upper-case entry stays)
AllowedExtensions == { << "j" >>, << "P" >> }

\* the position of the last dot of a name, 0 without a dot
LastDot(name) ==
  IF \E i \in 1..Len(name) : name[i] = "."
  THEN CHOOSE i \in 1..Len(name) :
         name[i] = "." /\ \A j \in (i + 1)..Len(name) : name[j] # "."
  ELSE 0

\* Path::extension: the text after the last dot, none without a dot or when
\* the only dot starts the name; an Option as a sequence of at most one
Extension(name) ==
  IF LastDot(name) <= 1 THEN << >>
  ELSE << SubSeq(name, LastDot(name) + 1, Len(name)) >>

\* an entry that is no error
EntryIsOk(e) == files[e] # "unreadable"

\* entry.file_type().is_file() on an entry that filter_map has let through
EntryIsFile(e) == files[e] = "file"

\* the body of the for loop decides to send the entry's path
EntrySent(e) ==
  /\ EntryIsFile(e)
  /\ Extension(e) # << >>
  /\ ToLowercase(Extension(e)[1]) \in AllowedExtensions

\* one entry of the traversal: dropped by filter_map, skipped, or sent
WalkerEntry(e) ==
  /\ ~ wDone
  /\ e \in DOMAIN files
  /\ e \notin wSeen
  /\ wSeen' = wSeen \cup { e }
  /\ pathsCh' = IF EntrySent(e) THEN pathsCh \cup { e } ELSE pathsCh
  /\ UNCHANGED << procVars, engine, files, storeVars, writers, wDone, pState,
                  pTodo,
                  metadataCh, iState, iCur, web, requests, runs, calls >>

\* the scan directory as the Walker meets it
InitWalker ==
  /\ engine \in Engines
  /\ files \in UNION { [ S -> EntryKinds ] : S \in SUBSET EntryNames }
  /\ index = << >>
  /\ writers = {}
  /\ esDocs = {}
  /\ esVisible = {}
  /\ JobInit
  /\ web = [ r \in 1..MaxRequests |-> NoRequest ]
  /\ requests = 0
  /\ runs = 1
  /\ calls = << >>
  /\ thumbs = {}

NextWalker ==
  \/ \E e \in EntryNames : WalkerEntry(e)
  \/ WalkerFinish

\* start_walking on a tree of files, directories and unreadable entries
SpecWalker == InitWalker /\ [][NextWalker]_vars

(* ------------------- search_images with an empty query ----------------- *)
\* TopDocs::with_limit(100) and "size": 100
SearchLimit == 100

\* a store filled up to one document more than a search returns
StoreSize == SearchLimit + 1

\* the n-th of StoreSize images, each with a path and a content of its own
NthImage(n) == ImageMetadata(<< ToString(n) >>, "h" \o ToString(n))

\* a sequence without its i-th entry
Drop(s, i) == SubSeq(s, 1, i - 1) \o SubSeq(s, i + 1, Len(s))

\* the elements of a finite set in some order
RECURSIVE SetToSeq(_)
SetToSeq(S) ==
  IF S = {} THEN << >>
  ELSE LET x == CHOOSE x \in S : TRUE IN << x >> \o SetToSeq(S \ { x })

\* a collector without a limit
NoLimit(hits) == { hits }

\* what the collector may keep of the hits of a query: all of them up to
\* SearchLimit; which ones it keeps beyond that is the backend's ranking
RECURSIVE Collect(_)
Collect(hits) ==
  IF Len(hits) <= SearchLimit THEN { hits }
  ELSE UNION { Collect(Drop(hits, i)) : i \in 1..Len(hits) }

\* the documents a search can see: Tantivy opens a reader on the committed
\* index, Elasticsearch searches what its last refresh has made visible
Searchable ==
  IF engine = "elasticsearch" THEN { d.src : d \in esVisible } ELSE TantivyStored

\* search_images(""): the query "*" or match_all matches every document the
\* search can see; the results a call may return
SearchAll ==
  IF engine = "elasticsearch"
  THEN Collect(SetToSeq({ d.src : d \in esVisible }))
  ELSE Collect([ i \in 1..Len(index) |-> RetrievedMetadata(index[i]) ])

\* the Indexer applies the record of the next image (before the requests
\* whose answers are observed)
SearchIndexNext ==
  /\ \A r \in Requests : web[r].st = "idle"
  /\ Len(index) + Cardinality(esDocs) < StoreSize
  /\ IF engine = "elasticsearch"
     THEN /\ esDocs' = EsIndexMetadata(esDocs, esVisible,
                                       NthImage(Cardinality(esDocs) + 1))
          /\ UNCHANGED index
     ELSE /\ index' = TantivyIndexMetadata(index, NthImage(Len(index) + 1))
          /\ UNCHANGED esDocs
  /\ UNCHANGED << procVars, engine, files, esVisible, writers, jobVars, web,
                  requests,
                  runs, calls >>

\* a server that answers only while the Indexer has not failed
ClientFreeJobAlive(r) ==
  r \in Requests /\ web[r].st \in { "idle", "done" } /\ iState # "failed"

\* a client whose last request, if any, has been answered
ClientFree(r) == r \in Requests /\ web[r].st \in { "idle", "done" }

\* GET /api/images without q: the handler answers what search_images returns
GetImages(r) ==
  /\ ClientFree(r)
  /\ \E result \in SearchAll :
       web' = [ web EXCEPT ![r] = [ NoRequest EXCEPT !.st = "done",
                  !.mode = "images", !.meta = result, !.status = 200 ] ]
  /\ UNCHANGED << procVars, engine, files, storeVars, writers, jobVars,
                  requests, runs,
                  calls >>

\* GET /api/status: the handler answers count_images (Tantivy: num_docs)
GetStatus(r) ==
  /\ engine = "tantivy"
  /\ ClientFree(r)
  /\ web' = [ web EXCEPT ![r] = [ NoRequest EXCEPT !.st = "done",
                 !.mode = "status", !.meta = << CountImages >>, !.status = 200 ] ]
  /\ UNCHANGED << procVars, engine, files, storeVars, writers, jobVars,
                  requests, runs,
                  calls >>

\* GET /api/image/{hash}: the file at the file_path of the first result
GetFullImage(r, h) ==
  /\ engine = "tantivy"
  /\ ClientFree(r)
  /\ IF SearchImages(index, h) = << >>
     THEN web' = [ web EXCEPT ![r] = [ NoRequest EXCEPT !.st = "done",
                     !.hash = h, !.mode = "image", !.status = 404 ] ]
     ELSE \E meta \in FirstResult(SearchImages(index, h)) :
            web' = [ web EXCEPT ![r] = [ NoRequest EXCEPT !.st = "done",
                       !.hash = h, !.mode = "image", !.meta = << meta >>,
                       !.status = IF meta.file_path \in DOMAIN files
                                  THEN 200 ELSE 500 ] ]
  /\ UNCHANGED << procVars, engine, files, storeVars, writers, jobVars,
                  requests, runs, calls >>

InitSearch ==
  /\ engine \in Engines
  /\ files = << >>
  /\ index = << >>
  /\ writers = {}
  /\ esDocs = {}
  /\ esVisible = {}
  /\ JobInit
  /\ web = [ r \in 1..MaxRequests |-> NoRequest ]
  /\ requests = 0
  /\ runs = 1
  /\ calls = << >>
  /\ thumbs = {}

NextSearch ==
  \/ SearchIndexNext
  \/ EsRefresh
  \/ GetImages(1)

\* a store that fills up, and requests for all images
SpecSearch == InitSearch /\ [][NextSearch]_vars

(* ------------------- the web layer next to the job ---------------------- *)
\* the indexing job has ended and a stage of it had returned an error
JobAborted == JobOver /\ (iState = "failed" \/ pState = "failed")

\* the job next to one client of the web layer that also reads
NextServe ==
  \/ NextFair
  \/ GetImages(1)
  \/ GetStatus(1)

SpecServe == Init /\ [][NextServe]_vars

(* ------------- the store interface called in sequence ------------------ *)
\* delete_document(h) of the Tantivy backend, called while no other writer
\* lives: writer, delete_term, commit (the refused writer is WebDeleteBegin)
DeleteCall(h) ==
  /\ requests < MaxCalls
  /\ requests' = requests + 1
  /\ WriterAvailable
  /\ index' = DeleteTerm(index, h)
  /\ UNCHANGED << procVars, engine, files, esDocs, esVisible, writers,
                  jobVars, web,
                  runs, calls >>

NextDelete ==
  \/ \E p \in Paths, h \in Hashes : MergeCall(p, h)
  \/ \E h \in Hashes : DeleteCall(h)

\* index_metadata and delete_document calls, one after the other
SpecDelete == InitMerge /\ [][NextDelete]_vars

(* ------- the thumbnail directory inside the scan directory ------------- *)
\* the scan directory holds an image and a thumbnail file written by an
\* earlier run, whose name carries the hash of another content
ThumbnailPaths == { << "a" >>, ThumbnailJoin(ThumbnailDirectory, "h1") }

InitHashKey ==
  /\ engine = "tantivy"
  /\ files \in UNION { [ S -> Hashes ] : S \in SUBSET ThumbnailPaths }
  /\ index = << >>
  /\ writers = {}
  /\ esDocs = {}
  /\ esVisible = {}
  /\ JobInit
  /\ web = [ r \in 1..MaxRequests |-> NoRequest ]
  /\ requests = 0
  /\ runs = 1
  /\ calls = << >>
  /\ thumbs = {}

NextHashKey ==
  \/ \E p \in ThumbnailPaths : WalkerVisit(p)
  \/ WalkerFinish
  \/ ProcessorCollect
  \/ \E p \in ThumbnailPaths : ProcessImage(p)
  \/ ProcessorFinish
  \/ IndexerStart
  \/ IndexerBegin
  \/ IndexerCommit
  \/ IndexerFinish
  \/ \E h \in Hashes, mode \in Modes : WebFind(1, h, mode)
  \/ WebDeleteBegin(1)
  \/ WebDeleteCommit(1)
  \/ WebInsertBegin(1)
  \/ WebInsertCommit(1)
  \/ \E h \in Hashes : GetFullImage(1, h)

SpecHashKey == InitHashKey /\ [][NextHashKey]_vars

(* ------------------------------- claims -------------------------------- *)
\* the documents of a set of stored records that carry hash h
WithHash(docs, h) == { m \in docs : m.file_hash = h }

\* the calls made so far for hash h, in order
CallsFor(h) == SelectSeq(calls, LAMBDA m : m.file_hash = h)

\* a sequence without repeated entries
NoRepeat(s) == \A i, j \in 1..Len(s) : s[i] = s[j] => i = j

\* C1: in every reachable state, whatever the interleaving of the Indexer's
\* index_metadata with the web layer's delete_document and update_document,
\* at most one stored document has any given file_hash.
C1_OneDocumentPerHash ==
  \A h \in Hashes :
    /\ Len(TopDocs(index, h)) <= 1
    /\ Cardinality({ d \in esDocs : d.src.file_hash = h }) <= 1

\* C1 witness: a keep-one request has replaced the document of a hash and the
\* Indexer has afterwards merged another path into it; the job is over
C1_Witness ==
  \E r \in Requests :
    /\ web[r].st = "done" /\ web[r].status = 200 /\ web[r].mode = "keep-one"
    /\ iState = "done"
    /\ \E m \in Stored : m.file_hash = web[r].hash /\ m.duplicate_paths # << >>

\* C2: after index_metadata for (h, P1) and then for (h, P2), P1 # P2, on a
\* store without a document for h, each backend holds exactly one document for
\* h, with file_path = P1 and duplicate_paths = [P2].
C2_IdentityCollapse ==
  \A h \in Hashes : \A P1, P2 \in Paths :
    (P1 # P2 /\ CallsFor(h) = << ImageMetadata(P1, h), ImageMetadata(P2, h) >>)
    => /\ WithHash(TantivyStored, h)
            = { [ ImageMetadata(P1, h) EXCEPT !.duplicate_paths = << P2 >> ] }
       /\ WithHash(EsStored, h)
            = { [ ImageMetadata(P1, h) EXCEPT !.duplicate_paths = << P2 >> ] }

\* C3: index_metadata with a (file_hash, file_path) pair that was applied
\* before leaves the stored documents as they are, in both backends.
C3_IdempotentReindex ==
  [][ \A p \in Paths, h \in Hashes :
        (MergeCall(p, h) /\ ImageMetadata(p, h) \in Range(calls))
        => (TantivyStored' = TantivyStored /\ EsStored' = EsStored) ]_vars

\* C4: in every reachable state, rescans of the tree included, no stored
\* document lists its own file_path among its duplicate_paths.
C4_PrimaryNotDuplicate ==
  \A m \in TantivyStored \cup EsStored :
    m.file_path \notin Range(m.duplicate_paths)

\* C5: in every reachable state no stored document lists the same path twice
\* in its duplicate_paths.
C5_NoRepeatedDuplicate ==
  \A m \in Stored : NoRepeat(m.duplicate_paths)

\* C6: index_metadata keeps, for every document stored before the call, a
\* document with the same file_hash, file_path and width (first seen wins),
\* in both backends and also when the lookup follows a write at once.
C6_FirstSeenWins ==
  [][ (IndexerCommit \/ IndexerIndexEs \/ \E r \in Requests : WebInsertCommit(r))
      => \A m \in Stored : \E n \in Stored' :
           /\ n.file_hash = m.file_hash
           /\ n.file_path = m.file_path
           /\ n.width = m.width ]_vars

\* the paths of the scan directory whose content has hash h
PathsWithHash(h) == { p \in DOMAIN files : files[p] = h }

\* the number of documents the backend in use reports
DocumentCount ==
  IF engine = "elasticsearch" THEN Cardinality(esDocs) ELSE CountImages

\* C7: when the first run of the job on an empty store has ended without a
\* failure (and no request has touched the files or the store), the store
\* holds one document per distinct content hash, each with as many
\* duplicate_paths as there are further paths of that content, and the
\* document count is the number of distinct hashes.
C7_PipelineResult ==
  (runs = 1 /\ requests = 0 /\ iState = "done" /\ pState = "done")
  => /\ \A h \in Hashes :
          /\ PathsWithHash(h) = {} => WithHash(Stored, h) = {}
          /\ PathsWithHash(h) # {} =>
               /\ Cardinality(WithHash(Stored, h)) = 1
               /\ \A m \in WithHash(Stored, h) :
                    Len(m.duplicate_paths) = Cardinality(PathsWithHash(h)) - 1
     /\ DocumentCount = Cardinality({ files[p] : p \in DOMAIN files } \cap Hashes)

\* C8: after every sequence of index_metadata calls both backends hold the
\* same documents (file_hash, file_path, duplicate_paths).
C8_BackendsAgree ==
  { << m.file_hash, m.file_path, m.duplicate_paths >> : m \in TantivyStored }
    = { << m.file_hash, m.file_path, m.duplicate_paths >> : m \in EsStored }

\* C9: at most one operation holds a live IndexWriter, and the Indexer has at
\* most one index_metadata call in flight.
C9_SingleWriter ==
  /\ Cardinality(writers) <= 1
  /\ Len(iCur) <= 1
  /\ (iState = "writing") = (iCur # << >>)

\* C9 witness: the Indexer holds the writer and the web layer's write, which
\* came while it was held, has been refused
C9_Witness ==
  /\ writers = { << "indexer" >> }
  /\ iState = "writing"
  /\ \E r \in Requests : web[r].st = "done" /\ web[r].status = 500

\* C10: when update_document(record) returns success, the document stored for
\* record.file_hash is the record.
C10_UpdateReplaces ==
  [][ \A r \in Requests :
        WebInsertCommit(r)
        => WithHash(Stored', web[r].hash) = { UpdatedRecord(web[r].meta[1]) } ]_vars

\* the records waiting on the metadata channel whose file_path is p
RecordsFor(p) == SelectSeq(metadataCh, LAMBDA m : m.file_path = p)

\* what start_processing has emitted when it returns, seen while the Indexer
\* has not yet taken a record: one record per path that can be processed
C11_Emitted ==
  /\ pState = "failed" => ReceiverDropped
  /\ (pState = "done" /\ iState = "start")
     => \A p \in Paths :
          Len(RecordsFor(p))
            = IF p \in pathsCh /\ p \in DOMAIN files /\ files[p] # Unprocessable
              THEN 1 ELSE 0

\* one path of try_for_each emits at most one record, for that path, and
\* stops the Processor only when the receiver is gone
C11_Step ==
  \A p \in Paths :
    ProcessImage(p)
    => /\ p \notin pTodo'
       /\ \/ metadataCh' = metadataCh
          \/ /\ Len(metadataCh') = Len(metadataCh) + 1
             /\ metadataCh'[Len(metadataCh')].file_path = p
             /\ SubSeq(metadataCh', 1, Len(metadataCh)) = metadataCh
       /\ pState' = "failed" => ReceiverDropped

\* C11: whatever subset of the input paths fails in process_image,
\* start_processing emits exactly one record, with file_path the input path,
\* for each path that succeeds, none for a failing path, never two for one
\* path, and it returns success as long as the metadata receiver exists.
C11_FailureIsolation == [] C11_Emitted /\ [][ C11_Step ]_vars

\* C11 witness: start_processing has returned with a record for one path and
\* none for another path, whose file cannot be processed
C11_Witness ==
  /\ pState = "done" /\ iState = "start"
  /\ \E p, q \in pathsCh :
       /\ p \in DOMAIN files /\ files[p] = Unprocessable /\ RecordsFor(p) = << >>
       /\ RecordsFor(q) # << >>

\* C12: when index_metadata fails on a record, the failing call writes
\* nothing, start_indexing has returned the error for good, no record is
\* received or applied afterwards, and whatever changes the store later is a
\* request of the web layer (or an Elasticsearch refresh), not the Indexer.
C12_StoreFaultPolicy ==
  [][ /\ (iState # "failed" /\ iState' = "failed") => storeVars' = storeVars
      /\ iState = "failed"
         => /\ iState' = "failed" /\ iCur' = iCur /\ metadataCh' = metadataCh
            /\ storeVars' # storeVars
               => \/ EsRefresh
                  \/ \E r \in Requests : WebDeleteCommit(r) \/ WebInsertCommit(r)
    ]_vars

\* C12 witness: index_metadata has failed on a record that was not the first,
\* an earlier record's document is stored and a later record is still unread
C12_Witness ==
  /\ iState = "failed"
  /\ Stored # {}
  /\ metadataCh # << >>

\* C13: a request with mode all on a stored record removes the files of its
\* file_path and duplicate_paths, then ends by removing the document: a
\* search for the hash then returns nothing and count_images is one less.
C13_DeleteAll ==
  [][ \A r \in Requests :
        /\ \A h \in Hashes :
             (WebFind(r, h, "all") /\ web'[r].st = "found")
             => \A p \in { web'[r].meta[1].file_path }
                          \cup Range(web'[r].meta[1].duplicate_paths) :
                  p \notin DOMAIN files'
        /\ (web[r].mode = "all" /\ web[r].st \in { "found", "deleting" }
              /\ web'[r].st = "done")
           => /\ web'[r].status = 200
              /\ SearchImages(index', web[r].hash) = << >>
              /\ CountImages' = CountImages - 1
    ]_vars

\* C14: a request with mode keep-one on a document the pipeline has produced
\* (rescans included) removes files of duplicate_paths only, never the file
\* at the document's file_path, and ends with a document for the hash that
\* has the same file_path and empty duplicate_paths.
C14_KeepOne ==
  [][ \A r \in Requests :
        /\ \A h \in Hashes :
             (WebFind(r, h, "keep-one") /\ web'[r].st = "found")
             => /\ (DOMAIN files) \ (DOMAIN files')
                     \subseteq Range(web'[r].meta[1].duplicate_paths)
                /\ web'[r].meta[1].file_path \in DOMAIN files
                   => web'[r].meta[1].file_path \in DOMAIN files'
        /\ (web[r].mode = "keep-one" /\ web[r].st # "done" /\ web'[r].st = "done")
           => \E m \in WithHash(Stored', web[r].hash) :
                /\ m.file_path = web[r].meta[1].file_path
                /\ m.duplicate_paths = << >>
    ]_vars

\* the documents of an index whose file_hash is not h, in order
OtherDocs(idx, h) == SelectSeq(idx, LAMBDA d : d.file_hash # h)

C16_WalkerFilter ==
  /\ \A p \in pathsCh :
       /\ files[p] = "file"
       /\ LastDot(p) > 1
       /\ ToLowercase(SubSeq(p, LastDot(p) + 1, Len(p))) \in AllowedExtensions
  /\ wDone
     => /\ wSeen = DOMAIN files
        /\ \A e \in DOMAIN files :
             (files[e] = "file" /\ e \in { << "a", ".", "j" >>, << "a", ".", "J" >> })
             => e \in pathsCh

\* C16 witness: the traversal has ended on a tree with an unreadable entry and
\* a directory named like an image; the file with the upper-case extension
\* was sent, neither of the two others was
C16_Witness ==
  /\ wDone
  /\ << "a", ".", "J" >> \in pathsCh
  /\ << "a", ".", "j" >> \in DOMAIN files /\ files[<< "a", ".", "j" >>] = "dir"
  /\ \E e \in DOMAIN files : files[e] = "unreadable"

\* C17: once the Walker has finished and its channel is closed, the
\* Processor and the Indexer both come to an end and the join of the job
\* completes, whether every index_metadata succeeds or the Indexer aborts.
C17_Termination == wDone ~> JobOver

\* C17 witness: the job is over after the Indexer aborted on a store fault
\* and the Processor stopped on its failed send
C17_Witness ==
  /\ JobOver
  /\ iState = "failed"
  /\ pState = "failed"

\* C18 as stated: every answer to a request for all images, that is what
\* search_images("") returns, has at most SearchLimit records, all
\* stored documents when the store holds at most SearchLimit, and exactly
\* SearchLimit otherwise.
C18_SearchAllStored ==
  [][ \A r \in Requests :
        (web'[r] # web[r] /\ web'[r].mode = "images")
        => /\ Len(web'[r].meta) <= SearchLimit
           /\ Cardinality(Stored) <= SearchLimit => Range(web'[r].meta) = Stored
           /\ Cardinality(Stored) > SearchLimit => Len(web'[r].meta) = SearchLimit
    ]_vars

\* C18 amended: every answer to a request for all images, that is what
\* search_images("") returns, has at most SearchLimit records, each
\* once and each a document the search can see (Tantivy: committed,
\* Elasticsearch: written before the last refresh); all of these when they
\* are at most SearchLimit, and exactly SearchLimit otherwise.
C18_SearchLimit ==
  [][ \A r \in Requests :
        (web'[r] # web[r] /\ web'[r].mode = "images")
        => /\ Len(web'[r].meta) <= SearchLimit
           /\ NoRepeat(web'[r].meta)
           /\ Range(web'[r].meta) \subseteq Searchable
           /\ Cardinality(Searchable) <= SearchLimit
              => Range(web'[r].meta) = Searchable
           /\ Cardinality(Searchable) > SearchLimit
              => Len(web'[r].meta) = SearchLimit
    ]_vars

\* C18 witness: a request was answered with SearchLimit records from a store
\* that holds one more
C18_Witness ==
  /\ Cardinality(Searchable) = StoreSize
  /\ \E r \in Requests :
       web[r].st = "done" /\ Len(web[r].meta) = SearchLimit

\* C19 as stated: after the job has aborted, a search_images or count_images
\* request is served and returns the documents stored before the failure.
C19_WebServesStored ==
  [][ \A r \in Requests :
        /\ (JobAborted /\ GetImages(r))
           => (web'[r].status = 200 /\ Range(web'[r].meta) = Stored)
        /\ (JobAborted /\ GetStatus(r))
           => (web'[r].status = 200 /\ web'[r].meta = << Cardinality(Stored) >>)
    ]_vars

\* C19 amended: after the job has aborted, every client without a request in
\* flight can have a search_images request served, and with Tantivy a
\* count_images request; the failure has left the store as it was and the
\* Indexer's writer released; the search returns the documents visible to it
\* (with Elasticsearch those written before the last refresh) and the count
\* is the number of stored documents.
C19_WebServes ==
  /\ [] (JobAborted
          => /\ << "indexer" >> \notin writers
             /\ web[1].st \in { "idle", "done" } => ENABLED GetImages(1)
             /\ (web[1].st \in { "idle", "done" } /\ engine = "tantivy")
                => ENABLED GetStatus(1))
  /\ [][ /\ (~ JobAborted /\ JobAborted' /\ ~ \E r \in Requests :
                  WebDeleteCommit(r) \/ WebInsertCommit(r))
             => Stored' = Stored
          /\ \A r \in Requests :
               /\ (JobAborted /\ GetImages(r))
                  => (web'[r].status = 200 /\ Range(web'[r].meta) = Searchable)
               /\ (JobAborted /\ GetStatus(r))
                  => (web'[r].status = 200
                      /\ web'[r].meta = << Cardinality(Stored) >>)
        ]_vars

\* C19 witness: the Indexer has aborted with a document stored, and the
\* client has since been answered that document by a search
C19_Witness ==
  /\ JobAborted
  /\ iState = "failed"
  /\ Stored # {}
  /\ web[1].st = "done" /\ web[1].mode = "images"
  /\ Range(web[1].meta) = Stored

\* C20: a delete_document or update_document of the web layer never makes an
\* index_metadata call of the Indexer fail: the Indexer never fails while a
\* request of the web layer holds the IndexWriter, and the job never ends
\* with index_metadata refused because of it.
C20_JobIndependent ==
  [][ (iState # "failed" /\ iState' = "failed")
      => ~ \E r \in Requests : << "web", r >> \in writers ]_vars

(* ------------------------------- C21 ----------------------------------- *)
\* config.num_workers
NumWorkers == 1

\* C21: at no time are more than config.num_workers paths being processed
\* concurrently by start_processing
C21_BoundedWorkers == Cardinality(DOMAIN pWork) <= NumWorkers

(* ------------------------------- C22 ----------------------------------- *)
\* the steps of process_image in the order of the code
StepsDone(step) ==
  CASE step = "hash" -> {}
    [] step = "exif" -> { "hash" }
    [] step = "dims" -> { "hash", "exif" }
    [] step = "thumb" -> { "hash", "exif", "dims" }
    [] step = "send" -> { "hash", "exif", "dims", "thumb" }

\* the steps whose result the worker of p holds
StepsHeld(p) ==
  (IF pWork[p].hash # "" THEN { "hash" } ELSE {})
  \cup (IF pWork[p].meta # << >> THEN { "dims" } ELSE {})
  \cup (IF pWork[p].meta # << >> /\ pWork[p].meta.thumbnail_path # << >>
        THEN { "thumb" } ELSE {})

\* C22 (order): a worker holds the hash before it reads EXIF data and
\* dimensions, holds the dimensions before it makes the thumbnail, and has
\* written the thumbnail file before it sends the record
C22_Order ==
  \A p \in DOMAIN pWork :
    /\ StepsHeld(p) = StepsDone(pWork[p].at) \ { "exif" }
    /\ "hash" \in StepsHeld(p) => pWork[p].hash = files[p]
    /\ "thumb" \in StepsHeld(p) => pWork[p].meta.thumbnail_path \in thumbs

\* C22 (queue): every record on the output queue has its thumbnail file
\* written at the record's thumbnail_path
C22_Queued ==
  \A i \in 1..Len(metadataCh) : metadataCh[i].thumbnail_path \in thumbs

\* C22: per-path step order hash, then metadata and dimensions, then
\* thumbnail, then emission; a record on the output queue always has its
\* thumbnail file written at its thumbnail_path
C22_StepOrder == [](C22_Order /\ C22_Queued)

\* a record is on the queue while another path is still being hashed
C22_Witness ==
  /\ Len(metadataCh) > 0
  /\ \E p \in DOMAIN pWork : pWork[p].at = "hash"
  /\ \E p \in DOMAIN pWork : pWork[p].at = "send"

(* ------------------------------- C23 ----------------------------------- *)
\* the records the Processor has emitted: on the queue or with the Indexer
Emitted ==
  { metadataCh[i] : i \in 1..Len(metadataCh) } \cup { iCur[i] : i \in 1..Len(iCur) }

\* C23: every record emitted by the Processor has thumbnail_path equal to
\* <thumbnail_directory>/<file_hash>.jpg, the path the thumbnail endpoint
\* derives from the hash alone, so records with the same file_hash have the
\* same thumbnail_path
C23_ThumbnailDeterminism ==
  /\ \A m \in Emitted : m.thumbnail_path = ThumbnailRoute(m.file_hash)
  /\ \A m, n \in Emitted \cup Stored :
       m.file_hash = n.file_hash => m.thumbnail_path = n.thumbnail_path

\* two records of the same content from two paths are on the queue
C23_Witness ==
  \E i, j \in 1..Len(metadataCh) :
    /\ metadataCh[i].file_hash = metadataCh[j].file_hash
    /\ metadataCh[i].file_path # metadataCh[j].file_path

(* ------------------------------- C24 ----------------------------------- *)
\* the Indexer changes neither backend and has no index_metadata call open
IndexerIdleStep == index' = index /\ esDocs' = esDocs /\ iCur' = iCur

\* C24 (step): until ensure_index_exists has returned the Indexer makes no
\* index_metadata call; it then goes on or returns the error, and once it
\* has returned an error it applies nothing
C24_Step ==
  /\ iState = "start" => IndexerIdleStep /\ iState' \in { "start", "idle", "failed" }
  /\ iState = "failed" => IndexerIdleStep /\ iState' = "failed"

\* C24: ensure_index_exists completes successfully before the Indexer's first
\* index_metadata call; if it fails the Indexer applies no record to the
\* store and returns the error
C24_EnsureFirst ==
  /\ [](iState = "start" => index = << >> /\ esDocs = {} /\ iCur = << >>)
  /\ [][C24_Step]_vars

\* ensure_index_exists has failed with every record of the job on the queue
C24_Witness ==
  /\ iState = "failed"
  /\ pState = "done"
  /\ Len(metadataCh) >= 2
  /\ Len(metadataCh) = Cardinality({ p \in DOMAIN files : files[p] \in Hashes })
  /\ Stored = {}

(* ------------------------------- C25 ----------------------------------- *)
\* the stored documents, as the backend in use holds them
RawDocs ==
  IF engine = "elasticsearch"
  THEN { d.src : d \in esDocs }
  ELSE { index[i] : i \in 1..Len(index) }

DocCount == IF engine = "elasticsearch" THEN Cardinality(esDocs) ELSE Len(index)

\* the effect claimed for index_metadata(m) on the step at hand
IndexMetadataFrame(m) ==
  /\ { d \in RawDocs : d.file_hash # m.file_hash }
       = { d \in RawDocs' : d.file_hash # m.file_hash }
  /\ DocCount' = IF \E d \in RawDocs : d.file_hash = m.file_hash
                 THEN DocCount
                 ELSE DocCount + 1

\* the steps on which an index_metadata call takes effect, with its record
C25_Step ==
  /\ (engine = "tantivy" /\ iState = "writing" /\ iState' = "idle")
       => IndexMetadataFrame(iCur[1])
  /\ (engine = "elasticsearch" /\ iState = "idle" /\ iState' = "idle"
        /\ metadataCh # << >> /\ metadataCh' = Tail(metadataCh))
       => IndexMetadataFrame(Head(metadataCh))
  /\ \A r \in Requests :
       (web[r].st = "inserting" /\ web'[r].st = "done")
         => IndexMetadataFrame(UpdatedRecord(web[r].meta[1]))

\* C25: index_metadata(record) changes at most one stored document: the
\* documents with another file_hash are the same before and after the call,
\* and the number of documents grows by one when the hash was absent and is
\* unchanged when it was present
C25_IndexMetadataFrame == [][C25_Step]_vars

\* a call has merged into the document of its hash beside another document
C25_Witness ==
  \E d, e \in RawDocs :
    /\ d.file_hash # e.file_hash
    /\ d.duplicate_paths # << >>
    /\ iState = "idle"

(* ------------------------------- C26 ----------------------------------- *)
\* C26 (step): the worker of a path whose content can be hashed, measured
\* and thumbnailed leaves only by sending its record, which carries the
\* camera make the EXIF step could read and none otherwise
C26_Step ==
  \A p \in DOMAIN pWork :
    (files[p] \in Hashes /\ p \notin DOMAIN pWork')
      => \/ ReceiverDropped /\ pState' = "failed"
         \/ /\ Len(metadataCh') = Len(metadataCh) + 1
            /\ metadataCh'[Len(metadataCh')].file_path = p
            /\ metadataCh'[Len(metadataCh')].file_hash = files[p]
            /\ metadataCh'[Len(metadataCh')].camera_make
                 = CameraMake(files[p])

\* C26: descriptive-metadata extraction is never fatal to an item: a path
\* whose hash, dimensions and thumbnail steps succeed has its record emitted
\* whatever the outcome of the EXIF step, the unread fields left absent
C26_ExifNotFatal == [][C26_Step]_vars

\* a record without camera make and one with it have been emitted
C26_Witness ==
  \E i, j \in 1..Len(metadataCh) :
    /\ metadataCh[i].camera_make = << >>
    /\ metadataCh[j].camera_make # << >>

(* ------------------------------- C27 ----------------------------------- *)
\* the query texts: a path, a hash, a camera make
Queries == Paths \cup { << h >> : h \in Hashes } \cup { << "m" >> }

\* the query is the file_path, the file_hash, the camera make or an entry of
\* duplicate_paths of the record
FieldEquals(m, q) ==
  \/ q = m.file_path
  \/ q = << m.file_hash >>
  \/ q # << >> /\ q = m.camera_make
  \/ \E i \in 1..Len(m.duplicate_paths) : m.duplicate_paths[i] = q

\* C27: search_images consults the same fields in both backends: a stored
\* document is returned for a query that matches its file_path, file_hash,
\* camera make, or any entry of its duplicate_paths
C27_SameFields ==
  \A q \in Queries :
    /\ \A i \in 1..Len(index) :
         FieldEquals(RetrievedMetadata(index[i]), q)
           => \E j \in 1..Len(TantivyQuery(index, q)) :
                TantivyQuery(index, q)[j] = index[i]
    /\ \A d \in esVisible :
         FieldEquals(d.src, q) => d.src \in EsQuery(esVisible, q)

(* ------------------------------- C28 ----------------------------------- *)
\* the request leaves the files and the documents as they are
NothingChanged == files' = files /\ index' = index /\ writers' = writers

\* C28 (step): the answer of the delete-duplicates request that arrives
C28_Step ==
  \A r \in Requests :
    (web[r].st = "idle" /\ web'[r].st # "idle"
       /\ web'[r].mode \in Modes)
      => /\ (/\ \E i \in 1..Len(index) : index[i].file_hash = web'[r].hash
             /\ web'[r].mode \notin { "all", "keep-one" })
              => /\ web'[r].st = "done" /\ web'[r].status = 400
                 /\ NothingChanged
         /\ (~ \E i \in 1..Len(index) : index[i].file_hash = web'[r].hash)
              => /\ web'[r].st = "done" /\ web'[r].status = 404
                 /\ NothingChanged

C29_StageBarrier ==
  ~ wDone =>
    /\ pState = "collect"
    /\ pTodo = {}
    /\ DOMAIN pWork = {}
    /\ thumbs = {}
    /\ metadataCh = << >>
    /\ iCur = << >>
    /\ index = << >>
    /\ esDocs = {}

\* the Walker has sent paths and is still walking, the Indexer is waiting
C29_Witness ==
  /\ ~ wDone
  /\ Cardinality(pathsCh) >= 2
  /\ iState = "idle"

C31_Step ==
  \A r \in Requests :
    (/\ web[r].mode = "keep-one"
     /\ web[r].st \in { "found", "deleted" }
     /\ web'[r].st = "done"
     /\ web'[r].status = 500)
      => \E i \in 1..Len(index') :
           index'[i].file_hash = web[r].meta[1].file_hash

C31_UpdateKeepsDocument == [][C31_Step]_vars

(* ------------------------------- C32 ----------------------------------- *)
\* the paths of the calls made so far for hash h, in order
PathsFor(h) == [ i \in 1..Len(CallsFor(h)) |-> CallsFor(h)[i].file_path ]

\* C32: for every sequence of distinct paths merged into a document, also
\* paths that contain a comma, the duplicate_paths returned by search_images
\* is the sequence of the merged secondary paths, in merge order
C32_RoundTrip ==
  \A h \in Hashes :
    (PathsFor(h) # << >> /\ NoRepeat(PathsFor(h)))
      => \A m \in WithHash(TantivyStored, h) :
           m.duplicate_paths = Tail(PathsFor(h))
====
